---- MODULE Spec2Model ----
(***************************************************************************)
(* Model of frontend/src/App.js: the App component's state, the            *)
(* startProcessing handler, the polling effect (setInterval callback with  *)
(* its captured closure, cleanup and dependency list) and the backend      *)
(* endpoints the component talks to.                                       *)
(*                                                                         *)
(* One action is one synchronous run of JavaScript (an event handler up to *)
(* its first await, or the continuation after an await) together with the  *)
(* render and effect pass that React performs for the state it updated.    *)
(***************************************************************************)
EXTENDS Integers, Sequences, FiniteSets, TLC

VARIABLES
    url,            \* useState('')  : the URL input, a sequence of characters
    videoId,        \* const videoId = extractVideoId(url) of the last render
    taskId,         \* useState(null): the task handle, NoTask when null/undefined
    sentences,      \* useState([])  : the accumulated transcript
    lastKey,        \* useState(null): the cursor, NullKey when null
    isProcessing,   \* useState(false)
    progress,       \* useState(0)
    mounted,        \* the component is mounted
    timers,         \* live intervals, each with the closure its callback captured
    effTimer,       \* pollInterval of the last effect run, NoTimer if it returned early
    ticks,          \* interval callbacks suspended at an await
    startInFlight,  \* number of POST /api/start_processing requests awaiting a response
    avail,          \* backend: number of segments produced per task
    done,           \* backend: task reports status "completed"
    nTasks,         \* backend: number of tasks created
    nStarts,        \* number of start requests issued so far
    nTicks,         \* number of interval callbacks fired so far
    prevTask,       \* history: the handle stored when startProcessing last ran
    progressOf,     \* history: the task whose status fetch set Progress, NoTask if none
    player,         \* the seeks the embedded player has performed
    ev              \* history: the step taken last and what it did

vars == <<url, videoId, taskId, sentences, lastKey, isProcessing, progress, mounted,
          timers, effTimer, ticks, startInFlight, avail, done, nTasks,
          nStarts, nTicks, prevTask, progressOf, player, ev>>

\* ---------------------------------------------------------------- bounds
MaxSubmits == 2     \* start requests issued in one run
MaxTicks == 3       \* interval callbacks fired in one run
MaxSeg == 2         \* segments the backend produces per task
MaxChunks == 2      \* largest total_chunks a status response carries
MaxInFlight == 2    \* suspended callbacks at a time, where firings are not counted
MaxTotal == 8       \* largest total_chunks where only status bodies vary
MaxTokenLen == 12   \* longest token of a typed URL

\* ------------------------------------------------------------- constants
NoTask == 0
NoTimer == 0
NullKey == <<>>
NullId == <<>>
EmptyUrl == <<>>
VideoUrl == <<"h", "t", "t", "p", "s", ":", "/", "/", "y", "o", "u", "t", "u", ".", "b", "e", "/", "A", "B", "C", "D", "E", "F", "G", "H", "I", "J", "K">>
Urls == {EmptyUrl, VideoUrl}
Tasks == 1..MaxSubmits

\* ------------------------------------------------------- pure functions
\* /^.*(youtu.be\/|v\/|u\/\w\/|embed\/|watch\?v=|&v=)([^#&?]*).*/
\* The alternatives of group 1 in their order; ANY is the unescaped dot,
\* WORD is \w.
Markers ==
    << <<"y", "o", "u", "t", "u", "ANY", "b", "e", "/">>,
       <<"v", "/">>,
       <<"u", "/", "WORD", "/">>,
       <<"e", "m", "b", "e", "d", "/">>,
       <<"w", "a", "t", "c", "h", "?", "v", "=">>,
       <<"&", "v", "=">> >>

\* the characters of the inputs that are not matched by \w
NonWord == {"/", ".", ":", "?", "&", "=", "#", "-"}
\* the characters [^#&?] excludes
Delims == {"#", "&", "?"}

ElemMatches(e, c) ==
    IF e = "ANY" THEN TRUE
    ELSE IF e = "WORD" THEN c \notin NonWord
    ELSE e = c

\* pattern pat matches the text at position i
PatAt(u, i, pat) ==
    /\ i + Len(pat) - 1 <= Len(u)
    /\ \A j \in 1..Len(pat) : ElemMatches(pat[j], u[i + j - 1])

\* length of the first alternative of group 1 that matches at position i, 0 if none
MarkerAt(u, i) ==
    LET S == {m \in 1..Len(Markers) : PatAt(u, i, Markers[m])}
    IN  IF S = {} THEN 0
        ELSE Len(Markers[CHOOSE m \in S : \A o \in S : m <= o])

\* group 2, ([^#&?]*): the longest run without a delimiter from position i
RECURSIVE Run(_, _)
Run(u, i) ==
    IF i > Len(u) \/ u[i] \in Delims THEN <<>>
    ELSE <<u[i]>> \o Run(u, i + 1)

\* variant: the leading .* is lazy, the first marker is taken
RECURSIVE MatchFirst(_, _)
MatchFirst(u, n) ==
    IF n > Len(u) THEN [matched |-> FALSE, g2 |-> <<>>]
    ELSE IF MarkerAt(u, n + 1) > 0
         THEN [matched |-> TRUE, g2 |-> Run(u, n + 1 + MarkerAt(u, n + 1))]
         ELSE MatchFirst(u, n + 1)
MatchLazy(u) == MatchFirst(u, 0)

\* url.match(regExp): the greedy leading .* first takes the whole text and
\* gives characters back until group 1 matches behind the n it kept
RECURSIVE MatchFrom(_, _)
MatchFrom(u, n) ==
    IF n < 0 THEN [matched |-> FALSE, g2 |-> <<>>]
    ELSE IF MarkerAt(u, n + 1) > 0
         THEN [matched |-> TRUE, g2 |-> Run(u, n + 1 + MarkerAt(u, n + 1))]
         ELSE MatchFrom(u, n - 1)
Match(u) == MatchFrom(u, Len(u))

\* timeStr.split(':'): the pieces between the colons
RECURSIVE Split(_, _)
Split(str, piece) ==
    IF str = <<>> THEN <<piece>>
    ELSE IF Head(str) = ":" THEN <<piece>> \o Split(Tail(str), <<>>)
    ELSE Split(Tail(str), Append(piece, Head(str)))

DigitValue ==
    [c \in {"0", "1", "2", "3", "4", "5", "6", "7", "8", "9"} |->
        CASE c = "0" -> 0 [] c = "1" -> 1 [] c = "2" -> 2 [] c = "3" -> 3
          [] c = "4" -> 4 [] c = "5" -> 5 [] c = "6" -> 6 [] c = "7" -> 7
          [] c = "8" -> 8 [] c = "9" -> 9]

\* Number(piece) for a piece of decimal digits (Number('') is 0)
RECURSIVE NumberOf(_, _)
NumberOf(piece, acc) ==
    IF piece = <<>> THEN acc
    ELSE NumberOf(Tail(piece), 10 * acc + DigitValue[Head(piece)])

\* const [hours, minutes, seconds] = timeStr.split(':').map(Number);
\* hours * 3600 + minutes * 60 + seconds
TotalSeconds(timeStr) ==
    LET parts == Split(timeStr, <<>>)
    IN  NumberOf(parts[1], 0) * 3600 + NumberOf(parts[2], 0) * 60
            + NumberOf(parts[3], 0)

\* return (match && match[2].length === 11) ? match[2] : null
extractVideoId(u) ==
    LET match == Match(u)
    IN  IF match.matched /\ Len(match.g2) = 11 THEN match.g2 ELSE NullId

\* variant: the percentage is truncated
NewProgressFloor(processed, total) == (100 * processed) \div total

\* Math.round((processed / total) * 100) for 0 <= processed, 0 < total
NewProgress(processed, total) == (200 * processed + total) \div (2 * total)

\* A segment the backend serves: key <<task, index>>
Key(t, i) == <<t, i>>

\* data.sentences.map((sentence, i) => ({...sentence, sentence_number: startNum + i}))
RECURSIVE NumberFrom(_, _)
NumberFrom(keys, startNum) ==
    IF keys = <<>> THEN <<>>
    ELSE <<[key |-> Head(keys), sentence_number |-> startNum]>>
         \o NumberFrom(Tail(keys), startNum + 1)

\* The body {sentences, last_key} the transcript endpoint sends for the
\* segments of task t after index from: last_key is the key of the last
\* segment served, or the cursor k that was asked for when there is none.
KeysFrom(t, from) == [i \in 1..(avail[t] - from) |-> Key(t, from + i)]
Body(t, from, k) ==
    [sentences |-> KeysFrom(t, from),
     last_key |-> IF avail[t] > from THEN Key(t, avail[t]) ELSE k]

\* GET /api/transcript/{task}[?last_key=k]: the segments newer than k. A
\* cursor the task never issued is outside the endpoint's contract: the
\* backend may serve everything or nothing.
TranscriptResponses(t, k) ==
    IF k = NullKey THEN {Body(t, 0, k)}
    ELSE IF k[1] = t THEN {Body(t, IF k[2] < avail[t] THEN k[2] ELSE avail[t], k)}
    ELSE {Body(t, 0, k), [sentences |-> <<>>, last_key |-> k]}

\* ------------------------------------------------------------ rendering
\* disabled={isProcessing} on the input
InputDisabled == isProcessing
\* variant: the button is disabled only while the URL is empty
ButtonDisabledNoFlag == url = EmptyUrl

\* disabled={isProcessing || !url} on the button
ButtonDisabled == isProcessing \/ url = EmptyUrl

\* clearInterval(id)
ClearInterval(tm, id) == {t \in tm : t.id # id}

\* variant: the effect returns no cleanup
EffectCleanupNone(tm, id) == tm

\* return () => clearInterval(pollInterval)
EffectCleanup(tm, id) == ClearInterval(tm, id)

\* setInterval returns a handle no live interval or suspended callback holds
FreshTimer ==
    CHOOSE id \in 1..(MaxTicks + 2) :
        /\ id # effTimer
        /\ \A t \in timers : t.id # id
        /\ \A k \in ticks : k.timer # id

\* the dependency list [taskId, lastKey, sentences.length]
Deps(t, k, s) == <<t, k, Len(s)>>

\* The render that follows a handler's state updates: when a dependency
\* changed the previous effect's cleanup runs and the effect runs again with
\* the new values. tm is the set of live timers the handler itself left.
RunEffect(tm) ==
    IF Deps(taskId', lastKey', sentences') = Deps(taskId, lastKey, sentences)
    THEN /\ timers' = tm
         /\ effTimer' = effTimer
    ELSE LET cleaned == EffectCleanup(tm, effTimer) IN
         IF taskId' = NoTask
         THEN /\ timers' = cleaned
              /\ effTimer' = NoTimer
         ELSE /\ timers' = cleaned \cup
                    {[id |-> FreshTimer, taskId |-> taskId',
                      lastKey |-> lastKey', len |-> Len(sentences')]}
              /\ effTimer' = FreshTimer

Event(op, task, n, c) == [op |-> op, task |-> task, appended |-> n, completed |-> c]

\* const transcriptUrl = lastKey ? `...?last_key=${lastKey}` : `...`, with the
\* taskId and lastKey of the callback's closure; last_key NullKey: no parameter
TranscriptUrl(k) == [task |-> k.taskId, last_key |-> k.lastKey]

\* history of a status fetch: the body received, the Progress it met and
\* the transcript request the callback sends next
StatusEvent(k, c, processed, total) ==
    [op |-> "tickStatus", task |-> k.taskId, completed |-> c,
     processed |-> processed, total |-> total, before |-> progress,
     request |-> TranscriptUrl(k)]

\* ref={playerRef} on the <iframe>, which is rendered only when videoId is set
PlayerRefSet == mounted /\ videoId # NullId

\* playerRef.current.seekTo(totalSeconds, true): playerRef.current is the
\* <iframe> DOM element, which has no seekTo method; the call throws a
\* TypeError and the embedded player performs no seek.
SeekTo(performed, totalSeconds, allowSeekAhead) == performed

\* ----------------------------------------------------------------- Init
Init ==
    /\ url = EmptyUrl
    /\ videoId = extractVideoId(EmptyUrl)
    /\ taskId = NoTask
    /\ sentences = <<>>
    /\ lastKey = NullKey
    /\ isProcessing = FALSE
    /\ progress = 0
    /\ mounted = TRUE
    /\ timers = {}
    /\ effTimer = NoTimer
    /\ ticks = {}
    /\ startInFlight = 0
    /\ avail = [t \in Tasks |-> 0]
    /\ done = [t \in Tasks |-> FALSE]
    /\ nTasks = 0
    /\ nStarts = 0
    /\ nTicks = 0
    /\ prevTask = NoTask
    /\ progressOf = NoTask
    /\ player = <<>>
    /\ ev = Event("init", NoTask, 0, FALSE)

\* -------------------------------------------------------------- actions
\* onChange={(e) => setUrl(e.target.value)}
SetUrl(u) ==
    /\ mounted
    /\ ~InputDisabled
    /\ u # url
    /\ url' = u
    /\ videoId' = extractVideoId(u)
    /\ ev' = Event("setUrl", NoTask, 0, FALSE)
    /\ UNCHANGED <<taskId, sentences, lastKey, isProcessing, progress, mounted,
                   timers, effTimer, ticks, startInFlight, avail, done, nTasks,
                   nStarts, nTicks, prevTask, progressOf, player>>

\* onClick={startProcessing}, up to the await of the fetch
StartProcessing ==
    /\ mounted
    /\ ~ButtonDisabled
    /\ url # EmptyUrl
    /\ nStarts < MaxSubmits
    /\ isProcessing' = TRUE
    /\ sentences' = <<>>
    /\ lastKey' = NullKey
    /\ startInFlight' = startInFlight + 1
    /\ nStarts' = nStarts + 1
    /\ prevTask' = taskId
    /\ ev' = Event("start", taskId, 0, FALSE)
    /\ UNCHANGED <<url, taskId, progress, mounted, ticks, avail, done, nTasks,
                   nTicks, progressOf, videoId, player>>
    /\ RunEffect(timers)

\* the start request resolves with {task_id}: setTaskId(data.task_id)
StartOk ==
    /\ startInFlight > 0
    /\ startInFlight' = startInFlight - 1
    /\ nTasks' = nTasks + 1
    /\ taskId' = IF mounted THEN nTasks + 1 ELSE taskId
    /\ ev' = Event("startOk", nTasks + 1, 0, FALSE)
    /\ UNCHANGED <<url, sentences, lastKey, isProcessing, progress, mounted,
                   ticks, avail, done, nStarts, nTicks, prevTask, progressOf, videoId, player>>
    /\ RunEffect(timers)

\* the start request resolves with a body that has no task_id:
\* setTaskId(undefined), nothing is thrown
StartMalformed ==
    /\ startInFlight > 0
    /\ startInFlight' = startInFlight - 1
    /\ taskId' = IF mounted THEN NoTask ELSE taskId
    /\ ev' = Event("startMalformed", NoTask, 0, FALSE)
    /\ UNCHANGED <<url, sentences, lastKey, isProcessing, progress, mounted,
                   ticks, avail, done, nTasks, nStarts, nTicks, prevTask, progressOf, videoId, player>>
    /\ RunEffect(timers)

\* the fetch rejects or response.json() throws:
\* catch (error) { setIsProcessing(false) }
StartFail ==
    /\ startInFlight > 0
    /\ startInFlight' = startInFlight - 1
    /\ isProcessing' = IF mounted THEN FALSE ELSE isProcessing
    /\ ev' = Event("startFail", NoTask, 0, FALSE)
    /\ UNCHANGED <<url, taskId, sentences, lastKey, progress, mounted, timers,
                   effTimer, ticks, avail, done, nTasks, nStarts, nTicks, prevTask, progressOf, videoId, player>>

\* setInterval fires the callback of live timer t: fetch of /api/task_status
TickFire(t) ==
    /\ t \in timers
    /\ nTicks < MaxTicks
    /\ nTicks' = nTicks + 1
    /\ ticks' = ticks \cup
           {[n |-> nTicks + 1, timer |-> t.id, taskId |-> t.taskId,
             lastKey |-> t.lastKey, len |-> t.len,
             phase |-> "status", completed |-> FALSE]}
    /\ ev' = Event("tickFire", t.taskId, 0, FALSE)
    /\ UNCHANGED <<url, taskId, sentences, lastKey, isProcessing, progress,
                   mounted, timers, effTimer, startInFlight, avail, done,
                   nTasks, nStarts, prevTask, progressOf, videoId, player>>

\* if (status.total_chunks > 0) setProgress(newProgress)
ProgressAfter(processed, total) ==
    IF total > 0 THEN NewProgress(processed, total) ELSE progress

\* the status response arrives; the callback goes on to fetch the transcript
\* with the lastKey of its closure
TickStatusOk(k, processed, total) ==
    /\ k \in ticks
    /\ k.phase = "status"
    /\ progress' = IF mounted THEN ProgressAfter(processed, total) ELSE progress
    /\ ticks' = (ticks \ {k}) \cup
           {[k EXCEPT !.phase = "transcript", !.completed = done[k.taskId]]}
    /\ progressOf' = IF mounted /\ total > 0 THEN k.taskId ELSE progressOf
    /\ ev' = StatusEvent(k, done[k.taskId], processed, total)
    /\ UNCHANGED <<url, taskId, sentences, lastKey, isProcessing, mounted,
                   timers, effTimer, startInFlight, avail, done, nTasks,
                   nStarts, nTicks, prevTask, videoId, player>>

\* variant: the catch of the callback stops polling
PollCatchStops(tm, id) == ClearInterval(tm, id)

\* catch (error) { console.error('Polling error:', error) }: the timers the
\* callback leaves behind
PollCatch(tm, id) == tm

\* a fetch of the callback rejects, or its body does not parse
TickFail(k) ==
    /\ k \in ticks
    /\ ticks' = ticks \ {k}
    /\ timers' = PollCatch(timers, k.timer)
    /\ ev' = Event(IF k.phase = "status" THEN "tickStatusFail" ELSE "tickTranscriptFail",
                   k.taskId, 0, FALSE)
    /\ UNCHANGED <<url, taskId, sentences, lastKey, isProcessing, progress,
                   mounted, effTimer, startInFlight, avail, done, nTasks,
                   nStarts, nTicks, prevTask, progressOf, videoId, player>>

\* variant: setSentences(newSentences), the previous list is dropped
AppendedReplace(prev, keys, closureLen) == NumberFrom(keys, closureLen + 1)

\* setSentences(prev => [...prev, ...newSentences]) with startNum from the closure
Appended(prev, keys, closureLen) == prev \o NumberFrom(keys, closureLen + 1)

\* variant: the cursor is taken from the first segment of the response
CursorAfterFirst(data) == data.sentences[1]

\* setLastKey(data.last_key)
CursorAfter(data) == data.last_key

\* variant: completion does not clear the interval
CompletedTimersKeep(tm, k) == tm

\* if (status.status === 'completed') clearInterval(pollInterval)
CompletedTimers(tm, k) == IF k.completed THEN ClearInterval(tm, k.timer) ELSE tm

\* the transcript response arrives: append, advance the cursor, stop on completion
TickTranscriptOk(k, data) ==
    /\ k \in ticks
    /\ k.phase = "transcript"
    /\ data \in TranscriptResponses(TranscriptUrl(k).task, TranscriptUrl(k).last_key)
    /\ ticks' = ticks \ {k}
    /\ IF mounted /\ Len(data.sentences) > 0
       THEN /\ sentences' = Appended(sentences, data.sentences, k.len)
            /\ lastKey' = CursorAfter(data)
       ELSE UNCHANGED <<sentences, lastKey>>
    /\ isProcessing' = IF mounted /\ k.completed THEN FALSE ELSE isProcessing
    /\ ev' = Event("tickTranscript", k.taskId, Len(data.sentences), k.completed)
    /\ UNCHANGED <<url, taskId, progress, mounted, startInFlight, avail, done,
                   nTasks, nStarts, nTicks, prevTask, progressOf, videoId, player>>
    /\ RunEffect(CompletedTimers(timers, k))

\* onClick={() => seekToTime(sentence.start_time)} on the card of sentence i,
\* whose start_time is timeStr
SeekToTime(i, timeStr) ==
    /\ mounted
    /\ i \in 1..Len(sentences)
    /\ player' = IF ~PlayerRefSet THEN player
                 ELSE SeekTo(player, TotalSeconds(timeStr), TRUE)
    /\ ev' = [op |-> "click", time |-> timeStr, ref |-> PlayerRefSet,
              total |-> TotalSeconds(timeStr)]
    /\ UNCHANGED <<url, videoId, taskId, sentences, lastKey, isProcessing,
                   progress, mounted, timers, effTimer, ticks, startInFlight,
                   avail, done, nTasks, nStarts, nTicks, prevTask, progressOf>>

\* the component is discarded: the effect's cleanup runs
Unmount ==
    /\ mounted
    /\ mounted' = FALSE
    /\ timers' = EffectCleanup(timers, effTimer)
    /\ effTimer' = NoTimer
    /\ ev' = Event("unmount", NoTask, 0, FALSE)
    /\ UNCHANGED <<url, taskId, sentences, lastKey, isProcessing, progress,
                   ticks, startInFlight, avail, done, nTasks, nStarts, nTicks,
                   prevTask, progressOf, videoId, player>>

\* backend: a task produces its next segment
BackendProduce(t) ==
    /\ t \in 1..nTasks
    /\ ~done[t]
    /\ avail[t] < MaxSeg
    /\ avail' = [avail EXCEPT ![t] = @ + 1]
    /\ ev' = Event("backendProduce", t, 0, FALSE)
    /\ UNCHANGED <<url, taskId, sentences, lastKey, isProcessing, progress,
                   mounted, timers, effTimer, ticks, startInFlight, done,
                   nTasks, nStarts, nTicks, prevTask, progressOf, videoId, player>>

\* backend: a task finishes
BackendComplete(t) ==
    /\ t \in 1..nTasks
    /\ ~done[t]
    /\ done' = [done EXCEPT ![t] = TRUE]
    /\ ev' = Event("backendComplete", t, 0, TRUE)
    /\ UNCHANGED <<url, taskId, sentences, lastKey, isProcessing, progress,
                   mounted, timers, effTimer, ticks, startInFlight, avail,
                   nTasks, nStarts, nTicks, prevTask, progressOf, videoId, player>>

Next ==
    \/ \E u \in Urls : SetUrl(u)
    \/ StartProcessing
    \/ StartOk
    \/ StartMalformed
    \/ StartFail
    \/ \E t \in timers : TickFire(t)
    \/ \E k \in ticks : \E total \in 0..MaxChunks : \E processed \in 0..total :
           TickStatusOk(k, processed, total)
    \/ \E k \in ticks : TickFail(k)
    \/ \E k \in ticks : \E data \in TranscriptResponses(k.taskId, k.lastKey) :
           TickTranscriptOk(k, data)
    \/ Unmount
    \/ \E t \in Tasks : BackendProduce(t)
    \/ \E t \in Tasks : BackendComplete(t)

Spec == Init /\ [][Next]_vars

\* ------------------------------------------------- one task, run to the end
\* The interval keeps firing for as long as it is live: firings are not
\* counted, at most MaxInFlight callbacks are suspended at a time.
FreeSlot == CHOOSE n \in 1..MaxInFlight : \A k \in ticks : k.n # n

TickFireLive(t) ==
    /\ t \in timers
    /\ Cardinality(ticks) < MaxInFlight
    /\ ticks' = ticks \cup
           {[n |-> FreeSlot, timer |-> t.id, taskId |-> t.taskId,
             lastKey |-> t.lastKey, len |-> t.len,
             phase |-> "status", completed |-> FALSE]}
    /\ ev' = Event("tickFire", t.taskId, 0, FALSE)
    /\ UNCHANGED <<url, taskId, sentences, lastKey, isProcessing, progress,
                   mounted, timers, effTimer, startInFlight, avail, done,
                   nTasks, nStarts, nTicks, prevTask, progressOf, videoId, player>>

\* the first click on Start
FirstStart == nStarts = 0 /\ StartProcessing

StatusArrives ==
    \E k \in ticks : \E total \in 0..MaxChunks : \E processed \in 0..total :
        TickStatusOk(k, processed, total)
TranscriptArrives ==
    \E k \in ticks : \E data \in TranscriptResponses(k.taskId, k.lastKey) :
        TickTranscriptOk(k, data)
TimerFires == \E t \in timers : TickFireLive(t)
BackendFinishes == \E t \in Tasks : BackendComplete(t)

LiveNext ==
    \/ \E u \in Urls : SetUrl(u)
    \/ FirstStart
    \/ StartOk
    \/ TimerFires
    \/ StatusArrives
    \/ \E k \in ticks : TickFail(k)
    \/ TranscriptArrives
    \/ \E t \in Tasks : BackendProduce(t)
    \/ BackendFinishes

\* The submission is answered, the task finishes, a live interval fires, and
\* fetches of suspended callbacks succeed again and again.
LiveSpec ==
    /\ Init
    /\ [][LiveNext]_vars
    /\ WF_vars(StartOk)
    /\ WF_vars(BackendFinishes)
    /\ WF_vars(TimerFires)
    /\ SF_vars(StatusArrives)
    /\ SF_vars(TranscriptArrives)

\* ------------------------------------------- status bodies over a wide range
\* One submission whose task has not produced a segment yet: every status
\* body {processed_chunks, total_chunks} with total_chunks <= MaxTotal.
StatusArrivesWide ==
    \E k \in ticks : \E total \in 0..MaxTotal : \E processed \in 0..total :
        TickStatusOk(k, processed, total)

ProgressNext ==
    \/ \E u \in Urls : SetUrl(u)
    \/ FirstStart
    \/ StartOk
    \/ TimerFires
    \/ StatusArrivesWide
    \/ \E k \in ticks : TickFail(k)
    \/ TranscriptArrives
    \/ Unmount

ProgressSpec == Init /\ [][ProgressNext]_vars

\* --------------------------------------------------------- typed URLs
\* The URLs typed into the input: text, a marker (or a path that is none),
\* a token of up to MaxTokenLen characters and a tail.
UrlHeads ==
    { <<>>,
      <<"h", "t", "t", "p", "s", ":", "/", "/">>,
      <<"v", "/">> }
UrlMarkers ==
    { <<"y", "o", "u", "t", "u", ".", "b", "e", "/">>,
      <<"y", "o", "u", "t", "u", "X", "b", "e", "/">>,
      <<"v", "/">>,
      <<"u", "/", "1", "/">>,
      <<"e", "m", "b", "e", "d", "/">>,
      <<"w", "a", "t", "c", "h", "?", "v", "=">>,
      <<"&", "v", "=">>,
      <<"s", "h", "o", "r", "t", "s", "/">> }
TokenChars == <<"A", "B", "C", "D", "E", "F", "G", "H", "I", "J", "K", "L", "M", "N", "O", "P", "Q">>
TokenLens == {0} \cup ((MaxTokenLen - 3)..MaxTokenLen)
UrlTails ==
    { <<>>,
      <<"?", "t", "=", "1">>,
      <<"&", "t", "=", "1">>,
      <<"#", "x">>,
      <<"/">>,
      <<"&", "v", "=", "B">>,
      <<"?", "x", "=", "v", "/", "1">> }
UrlInputs ==
    {h \o m \o SubSeq(TokenChars, 1, n) \o t :
        h \in UrlHeads, m \in UrlMarkers, n \in TokenLens, t \in UrlTails}

ExtractNext == \E u \in UrlInputs : SetUrl(u)

ExtractSpec == Init /\ [][ExtractNext]_vars

\* ---------------------------------------------------- clicks on the transcript
\* start_time values "HH:MM:SS" the backend attaches to segments
TimeStrs ==
    { <<"0", "0", ":", "0", "0", ":", "0", "0">>,
      <<"0", "0", ":", "0", "1", ":", "0", "5">>,
      <<"0", "1", ":", "0", "0", ":", "0", "0">>,
      <<"1", "0", ":", "5", "9", ":", "5", "9">> }

SeekNext ==
    \/ \E u \in Urls : SetUrl(u)
    \/ FirstStart
    \/ StartOk
    \/ TimerFires
    \/ StatusArrives
    \/ TranscriptArrives
    \/ \E t \in Tasks : BackendProduce(t)
    \/ \E i \in 1..Len(sentences) : \E timeStr \in TimeStrs : SeekToTime(i, timeStr)

SeekSpec == Init /\ [][SeekNext]_vars

\* ======================================================== properties
TickDone == ev.op = "tickTranscript"

\* C1: the sequence numbers of the Accumulated Transcript are exactly 1..N in
\* order, N the number of segments held, for every sequence of ticks, late
\* and overlapping responses included.
C1_SequenceNumbers ==
    \A i \in 1..Len(sentences) : sentences[i].sentence_number = i

\* C2: after a re-submission no segment fetched for the previous task handle
\* is in the Accumulated Transcript that was reset for the new submission.
C2_NoSupersededSegments ==
    prevTask # NoTask =>
        \A i \in 1..Len(sentences) : sentences[i].key[1] # prevTask

\* C3: when a tick has observed status "completed", after that tick the
\* Processing Flag is false and no interval timer is live for that task,
\* also when the tick appended segments.
C3_CompletedStopsTimer ==
    (TickDone /\ ev.completed /\ mounted) =>
        /\ ~isProcessing
        /\ \A t \in timers : t.taskId # ev.task

\* C4: at most one interval timer is live, it was created by the last effect
\* run and targets the stored task handle; none is live while the handle is
\* null or after the component is discarded; a change of the handle leaves
\* none of the previous timers live.
C4_TimerState ==
    /\ Cardinality(timers) <= 1
    /\ \A t \in timers : t.taskId = taskId /\ t.id = effTimer
    /\ taskId = NoTask => timers = {}
    /\ ~mounted => timers = {}
C4_TimerDiscipline ==
    /\ []C4_TimerState
    /\ [][taskId' # taskId => timers \cap timers' = {}]_vars
C4_Witness ==
    /\ taskId = 2
    /\ prevTask = 1
    /\ \E t \in timers : t.taskId = 2

\* C5: the cursor is null while the Accumulated Transcript holds no segment
\* and otherwise is the key of its last segment; after a tick that received
\* segments it is the key of the last segment of that response.
C5_Cursor ==
    /\ lastKey = IF sentences = <<>> THEN NullKey
                 ELSE sentences[Len(sentences)].key
    /\ (TickDone /\ ev.appended > 0 /\ mounted) =>
           lastKey = Key(ev.task, avail[ev.task])
C5_Witness ==
    /\ TickDone
    /\ ev.appended = 2
    /\ mounted
    /\ Len(sentences) > 2

\* C6: every failed submission (network failure, unparsable body, body
\* without task_id) ends with the Processing Flag false and issues no
\* further start request.
C6_FailedStartResets ==
    /\ []((ev.op \in {"startFail", "startMalformed"} /\ mounted) => ~isProcessing)
    /\ [][(StartFail \/ StartMalformed) => nStarts' = nStarts]_vars

\* C7: a tick whose status or transcript fetch fails leaves the Accumulated
\* Transcript, the cursor, the task handle, the Processing Flag and the live
\* timers as they were, so the timer keeps firing.
C7_TickFailureKeepsPolling ==
    [][(\E k \in ticks : TickFail(k)) =>
           UNCHANGED <<sentences, lastKey, taskId, isProcessing, timers>>]_vars
C7_Witness ==
    /\ ev.op = "tickTranscriptFail"
    /\ sentences # <<>>
    /\ isProcessing
    /\ \E t \in timers : t.taskId = ev.task

\* C8: at the moment a successful submission stores the task handle, the
\* Processing Flag is true, the Accumulated Transcript is empty and the
\* cursor is null.
C8_CleanStateAtStartOk ==
    (ev.op = "startOk" /\ mounted) =>
        /\ isProcessing
        /\ sentences = <<>>
        /\ lastKey = NullKey

\* C9: a start request is issued only while the URL is non-empty and the
\* Processing Flag is false, and the URL changes only while the flag is false.
C9_StartGuard ==
    [][/\ nStarts' # nStarts => (url # EmptyUrl /\ ~isProcessing)
       /\ url' # url => ~isProcessing]_vars
C9_Witness ==
    /\ ev.op = "start"
    /\ nStarts = 2
    /\ taskId # NoTask

\* C10: whenever a polling timer is live the Processing Flag is true.
C10_FlagGatesTimer ==
    timers # {} => isProcessing

\* C11: once a submission has succeeded and the task finishes, with ticks
\* that keep firing and fetches that succeed, eventually the polling timer
\* is stopped for good and the Processing Flag stays false.
Stopped == timers = {} /\ ~isProcessing
C11_EventuallyStops == (taskId # NoTask) ~> []Stopped
C11_Witness ==
    /\ taskId # NoTask
    /\ done[taskId]
    /\ sentences # <<>>
    /\ ticks = {}
    /\ Stopped

C12_WitnessZero ==
    /\ ev.op = "tickStatus"
    /\ mounted
    /\ ev.total = 0
    /\ progress = 67

\* C13: after a new submission has started, the Progress shown while the
\* Processing Flag is true was not computed from a status fetch of the
\* previous task.
C13_ProgressNotPersisted ==
    (mounted /\ isProcessing /\ prevTask # NoTask) => progressOf # prevTask

\* C14: every change of the Accumulated Transcript either empties it, which
\* only a step that issues a start request does, or keeps the previous
\* sequence as a prefix and adds the segments the tick received, in the
\* order the backend sent them.
C14_AppendOnly ==
    [][sentences' # sentences =>
          IF nStarts' # nStarts
          THEN sentences' = <<>>
          ELSE /\ Len(sentences') = Len(sentences) + ev'.appended
               /\ SubSeq(sentences', 1, Len(sentences)) = sentences
               /\ \A i \in 1..ev'.appended :
                      sentences'[Len(sentences) + i].key =
                          Key(ev'.task, avail[ev'.task] - ev'.appended + i)]_vars
C14_Witness ==
    /\ TickDone
    /\ mounted
    /\ ev.appended > 0
    /\ Len(sentences) > ev.appended
    /\ nStarts = 2

\* a recognized marker at position i is followed by exactly 11 characters up
\* to the next '#', '&', '?' or the end
ShapeAt(u, i) ==
    /\ MarkerAt(u, i) > 0
    /\ Len(Run(u, i + MarkerAt(u, i))) = 11
TokenAt(u, i) == Run(u, i + MarkerAt(u, i))
LastMarkerAt(u, i) ==
    /\ MarkerAt(u, i) > 0
    /\ \A j \in (i + 1)..Len(u) : MarkerAt(u, j) = 0

\* C16 (as stated): for every URL that contains a recognized marker followed
\* by an 11-character token the video identifier is that token, and for
\* every URL without such a shape it is null.
C16_AnyMarker ==
    /\ \A i \in 1..Len(url) : ShapeAt(url, i) => videoId = TokenAt(url, i)
    /\ (\A i \in 1..Len(url) : ~ShapeAt(url, i)) => videoId = NullId

\* C16 (amended): the video identifier is the token after the last
\* recognized marker of the URL when that token has exactly 11 characters,
\* and null for every other URL.
C16_LastMarker ==
    /\ \A i \in 1..Len(url) :
           (LastMarkerAt(url, i) /\ ShapeAt(url, i)) => videoId = TokenAt(url, i)
    /\ (\A i \in 1..Len(url) : ~(LastMarkerAt(url, i) /\ ShapeAt(url, i))) =>
           videoId = NullId
C16_Witness ==
    /\ videoId # NullId
    /\ \E i, j \in 1..Len(url) :
           /\ i < j
           /\ MarkerAt(url, i) > 0
           /\ LastMarkerAt(url, j)
           /\ videoId = TokenAt(url, j)

\* C15: a click on a transcript entry with start-time HH:MM:SS makes the
\* embedded player seek to hours x 3600 + minutes x 60 + seconds with the
\* immediate-seek flag true (65 for "00:01:05") when a player is mounted and
\* does nothing when none is.
ExpectedSeconds(t) ==
    (DigitValue[t[1]] * 10 + DigitValue[t[2]]) * 3600
    + (DigitValue[t[4]] * 10 + DigitValue[t[5]]) * 60
    + DigitValue[t[7]] * 10 + DigitValue[t[8]]
C15_ClickSeeks ==
    ev.op = "click" =>
        /\ ev.ref => /\ player # <<>>
                      /\ player[Len(player)] = <<ExpectedSeconds(ev.time), TRUE>>
        /\ ~ev.ref => player = <<>>

\* C17: the transcript request a tick sends carries as last_key the cursor
\* stored at the moment it is sent (no parameter exactly when that cursor is
\* null), never an older one.
C17_RequestCarriesCursor ==
    (ev.op = "tickStatus" /\ mounted) => ev.request.last_key = lastKey

\* C18: with a backend that answers every transcript request with exactly
\* the segments newer than the last_key it was given, no segment key occurs
\* twice in the Accumulated Transcript.
C18_NoDuplicateKeys ==
    \A i, j \in 1..Len(sentences) :
        i # j => sentences[i].key # sentences[j].key

\* C19: at most one start request is in flight, and while one is in flight
\* the Processing Flag is true.
C19_OneStartInFlight ==
    /\ startInFlight <= 1
    /\ (startInFlight > 0 /\ mounted) => isProcessing

====
